---- MODULE Spec2Model ----
(***************************************************************************)
(* git-timestamps: the snapshot / reconcile / restore engine of            *)
(* src/helper/timestamps.py and the tree walker of src/helper/rekursion.py *)
(* as state machines.                                                      *)
(*                                                                         *)
(* Strings are sequences of one-character strings, so that splitting,      *)
(* stripping and glob matching are computed the way the code computes      *)
(* them.  A Python dict is the sequence of its items in insertion order    *)
(* (records [k, v] with pairwise different k).                             *)
(*                                                                         *)
(* Five specifications share the variables:                                *)
(*   SpecReconcile  update_metadata applied to bounded pairs of mappings   *)
(*   SpecWalk       get_filepaths_ancor applied to bounded directory trees *)
(*   Spec           one project on disk, scanned and restored through main *)
(*                  and through the public read_metadata / write_metadata  *)
(*   SpecScan       read_metadata step by step, ended at any of its steps  *)
(*   SpecKey        scan_files applied to the walker's result for bounded  *)
(*                  project paths and trees                                *)
(***************************************************************************)
EXTENDS Integers, Sequences, FiniteSets, TLC

VARIABLES
    old_in,     \* SpecReconcile: existing_metadata handed to update_metadata
    new_in,     \* SpecReconcile: new_metadata handed to update_metadata
    merged,     \* SpecReconcile: what update_metadata returned (None before the call)
    tree,       \* SpecWalk: the directory tree below the anchor
    exclude,    \* SpecWalk: the exclude argument {"folder": .., "files": ..}
    walk_out,   \* SpecWalk: what get_filepaths_ancor returned (None before the call)
    disk,       \* Spec: the project's files on disk
    store,      \* Spec: the content of .timestamps.json (None when absent)
    last,       \* Spec: the run of the program that has just ended, with its inputs and result
    changes,    \* Spec: how often the project was changed from outside so far
    pc,         \* SpecScan: where read_metadata stands (None elsewhere)
    project     \* SpecKey: the project_path argument (None elsewhere)

vars == <<old_in, new_in, merged, tree, exclude, walk_out, disk, store, last, changes,
          pc, project>>

\* Python's None and a value that is not None: a sequence of no or one element.
None == <<>>

Some(value) == <<value>>

Value(option) == option[1]

----------------------------------------------------------------------------
(* Python dict, as the sequence of its items.                              *)

DictKeys(d) == { d[i].k : i \in 1..Len(d) }

DictHas(d, key) == \E i \in 1..Len(d) : d[i].k = key

DictGet(d, key) == d[CHOOSE i \in 1..Len(d) : d[i].k = key].v

\* d[key] = value: an existing key keeps its place, a new one goes last.
DictPut(d, key, value) ==
    IF DictHas(d, key)
    THEN [i \in 1..Len(d) |-> IF d[i].k = key THEN [k |-> key, v |-> value] ELSE d[i]]
    ELSE Append(d, [k |-> key, v |-> value])

IsDict(d) == \A i, j \in 1..Len(d) : d[i].k = d[j].k => i = j

----------------------------------------------------------------------------
(* update_metadata: the reconciler.                                        *)

\* A plausible slip: the freshly scanned record always wins.
update_entry_always_new(existing_metadata, key, data) == data

\* The body of the loop of update_metadata: the record stored for key.
update_entry(existing_metadata, key, data) ==
    IF DictHas(existing_metadata, key)
    THEN IF DictGet(existing_metadata, key).md5 = data.md5
         THEN DictGet(existing_metadata, key)
         ELSE data
    ELSE data

RECURSIVE update_loop(_, _, _, _)
update_loop(existing_metadata, new_metadata, i, updated) ==
    IF i > Len(new_metadata) THEN updated
    ELSE update_loop(existing_metadata, new_metadata, i + 1,
            DictPut(updated, new_metadata[i].k,
                    update_entry(existing_metadata, new_metadata[i].k, new_metadata[i].v)))

\* A plausible slip: the old mapping seeds the result, so stale keys survive.
update_metadata_seeded(existing_metadata, new_metadata) ==
    update_loop(existing_metadata, new_metadata, 1, existing_metadata)

update_metadata(existing_metadata, new_metadata) ==
    update_loop(existing_metadata, new_metadata, 1, <<>>)

----------------------------------------------------------------------------
(* SpecReconcile: update_metadata on every pair of mappings within bounds. *)

MaxRecords == 2                      \* entries per mapping

RecKeys == {"A", "B", "C"}

\* The records differ in md5 and in modified; the other fields ride along.
RecValues ==
    { [md5 |-> h, modified |-> m, created |-> m, access |-> 0, attr |-> "A"] :
        h \in {"h1", "h2"}, m \in {1, 2} }

RecDicts ==
    { d \in UNION { [1..n -> [k : RecKeys, v : RecValues]] : n \in 0..MaxRecords } :
        IsDict(d) }

InitReconcile ==
    /\ old_in \in RecDicts
    /\ new_in \in RecDicts
    /\ merged = None
    /\ tree = None /\ exclude = None /\ walk_out = None
    /\ disk = None /\ store = None /\ last = None /\ changes = 0
    /\ pc = None /\ project = None

Reconcile ==
    /\ merged = None
    /\ merged' = Some(update_metadata(old_in, new_in))
    /\ UNCHANGED <<old_in, new_in, tree, exclude, walk_out, disk, store, last, changes, pc, project>>

NextReconcile == Reconcile

SpecReconcile == InitReconcile /\ [][NextReconcile]_vars

\* C1: for every key of the scanned mapping the merged record is the old
\* record verbatim when the key is in the old mapping with the same md5, and
\* the new record otherwise; so reconcile(M, M) = M and reconcile({}, N) = N.
C1_MergedRecord ==
    merged # None =>
        /\ \A key \in DictKeys(new_in) :
              /\ DictHas(Value(merged), key)
              /\ DictGet(Value(merged), key) =
                    IF /\ DictHas(old_in, key)
                       /\ DictGet(old_in, key).md5 = DictGet(new_in, key).md5
                    THEN DictGet(old_in, key)
                    ELSE DictGet(new_in, key)
        /\ (old_in = new_in => Value(merged) = new_in)
        /\ (old_in = <<>> => Value(merged) = new_in)

\* An unchanged file whose old record differs from the new one has been merged,
\* next to a changed or new file.
C1_Witness ==
    /\ merged # None
    /\ \E key \in DictKeys(new_in) :
          /\ DictHas(old_in, key)
          /\ DictGet(old_in, key).md5 = DictGet(new_in, key).md5
          /\ DictGet(old_in, key) # DictGet(new_in, key)
    /\ \E key \in DictKeys(new_in) :
          \/ ~DictHas(old_in, key)
          \/ DictGet(old_in, key).md5 # DictGet(new_in, key).md5

\* C2: the merged mapping has exactly the keys of the scanned mapping, each
\* once: no key of the old mapping alone survives and no scanned key is lost.
C2_MergedKeys ==
    merged # None =>
        /\ DictKeys(Value(merged)) = DictKeys(new_in)
        /\ Len(Value(merged)) = Len(new_in)
        /\ IsDict(Value(merged))

\* A key of the old mapping that was not scanned again has been dropped.
C2_Witness ==
    /\ merged # None
    /\ DictKeys(old_in) \ DictKeys(new_in) # {}
    /\ DictKeys(new_in) \cap DictKeys(old_in) # {}

----------------------------------------------------------------------------
(* Strings.                                                                *)

SLASH == <<"/">>

\* os.path.normcase as fnmatch.fnmatch applies it on Windows, the platform
\* the attribute decoder (st_file_attributes) needs: upper case becomes lower.
LowerChar(c) == IF c = "G" THEN "g" ELSE IF c = "A" THEN "a" ELSE c

normcase(s) == [i \in 1..Len(s) |-> LowerChar(s[i])]

\* fnmatch.fnmatchcase for patterns of literals, "?" and "*".
RECURSIVE fnmatchcase(_, _)
fnmatchcase(name, pat) ==
    IF pat = <<>> THEN name = <<>>
    ELSE IF Head(pat) = "*"
         THEN \/ fnmatchcase(name, Tail(pat))
              \/ name # <<>> /\ fnmatchcase(Tail(name), pat)
    ELSE IF name = <<>> THEN FALSE
    ELSE /\ Head(pat) = "?" \/ Head(pat) = Head(name)
         /\ fnmatchcase(Tail(name), Tail(pat))

fnmatch(name, pat) == fnmatchcase(normcase(name), normcase(pat))

\* str.split("/") of a path: its segments.
RECURSIVE SplitFrom(_, _, _)
SplitFrom(s, i, start) ==
    IF i > Len(s) THEN <<SubSeq(s, start, Len(s))>>
    ELSE IF s[i] = "/" THEN <<SubSeq(s, start, i - 1)>> \o SplitFrom(s, i + 1, i + 1)
    ELSE SplitFrom(s, i + 1, start)

SplitSlash(s) == SplitFrom(s, 1, 1)

\* The segments joined by "/" again.
RECURSIVE JoinSlash(_)
JoinSlash(segs) ==
    IF segs = <<>> THEN <<>>
    ELSE IF Len(segs) = 1 THEN segs[1]
    ELSE segs[1] \o SLASH \o JoinSlash(Tail(segs))

\* str.lstrip("/")
RECURSIVE lstrip_slash(_)
lstrip_slash(s) == IF s # <<>> /\ Head(s) = "/" THEN lstrip_slash(Tail(s)) ELSE s

\* s.split(sep)[-1]: what follows the last of the occurrences of sep that
\* str.split finds scanning from the left (all of s when there is none).
RECURSIVE split_last(_, _)
split_last(s, sep) ==
    LET hits == { i \in 1..(Len(s) - Len(sep) + 1) : SubSeq(s, i, i + Len(sep) - 1) = sep }
    IN IF hits = {} THEN s
       ELSE LET i == CHOOSE h \in hits : \A g \in hits : h <= g
            IN split_last(SubSeq(s, i + Len(sep), Len(s)), sep)

\* pathlib: PurePath.name and str(PurePath.parent) of a path of two or more segments.
path_name(path) == LET segs == SplitSlash(path) IN segs[Len(segs)]

path_parent(path) == LET segs == SplitSlash(path) IN JoinSlash(SubSeq(segs, 1, Len(segs) - 1))

\* pathlib: a / b in posix form, for a relative b and for a rooted b ("/x"
\* keeps the drive of a and nothing else of it).
path_drive(a) ==
    IF \E i \in 1..Len(a) : a[i] = ":"
    THEN SubSeq(a, 1, CHOOSE i \in 1..Len(a) : a[i] = ":" /\ \A j \in 1..(i - 1) : a[j] # ":")
    ELSE <<>>

path_join(a, b) ==
    IF b = <<>> THEN a
    ELSE IF Head(b) = "/" THEN path_drive(a) \o b
    ELSE a \o SLASH \o b

\* utils.globals.DRIVE and the project of main's loop, project["path"] / project["name"].
DRIVE == <<"G", ":">>

project_path == <<"/", "p">>

----------------------------------------------------------------------------
(* rekursion.py: the tree walker.                                          *)
(*                                                                         *)
(* A tree maps the relative path of every directory below the anchor (the  *)
(* anchor itself is <<>>) to what Path.iterdir() gives there: the entries  *)
(* in iteration order, and the name of the exception it raises ("" when it *)
(* raises none; the entries are empty when it raises).  An entry          *)
(* has its own name and a kind:                                            *)
(*   "file"   is_file() is true                                            *)
(*   "dir"    is_file() is false, is_dir() is true                         *)
(*   "other"  both are false (a broken symbolic link)                      *)
(*   "noperm" stat fails with EACCES: is_file() raises PermissionError     *)
(*            (pathlib before 3.14 re-raises every errno but ENOENT,       *)
(*            ENOTDIR, EBADF and ELOOP)                                    *)

\* A plausible slip: only the first pattern is looked at.
match_not_exclude_first(name, excludes) ==
    IF excludes = None THEN TRUE
    ELSE IF Value(excludes) # <<>> /\ fnmatch(name, Value(excludes)[1]) THEN FALSE
    ELSE TRUE

match_not_exclude(name, excludes) ==
    IF excludes = None THEN TRUE
    ELSE IF \E i \in 1..Len(Value(excludes)) : fnmatch(name, Value(excludes)[i]) THEN FALSE
    ELSE TRUE

\* ancor_path: read_metadata passes drive_path / project_path.
ANCOR == path_join(DRIVE, project_path)

\* ancor_path / rel_path, as_posix
curr_path(rel_path) == IF rel_path = <<>> THEN ANCOR ELSE ANCOR \o SLASH \o rel_path

IterdirRaises(t, rel_path) == t[rel_path].raises # ""

entry_path(rel_path, entry) ==
    IF rel_path = <<>> THEN entry.name ELSE rel_path \o SLASH \o entry.name

\* get_filepaths and the loop inside it.  acc holds the three lists the
\* closure appends to.  An exception raised by the loop body leaves the loop:
\* the try statement is around the for statement.
RECURSIVE get_filepaths(_, _, _, _)
RECURSIVE get_filepaths_loop(_, _, _, _, _)
get_filepaths_loop(t, ex, rel_path, i, acc) ==
    IF i > Len(t[rel_path].entries) THEN acc
    ELSE LET entry == t[rel_path].entries[i]
             name  == entry_path(rel_path, entry)
         IN CASE entry.kind = "noperm" ->
                    [acc EXCEPT !.errors = Append(@, curr_path(rel_path))]
              [] entry.kind = "file" ->
                    get_filepaths_loop(t, ex, rel_path, i + 1,
                        IF match_not_exclude(entry.name, ex.files)
                        THEN [acc EXCEPT !.files = Append(@, name)]
                        ELSE acc)
              [] entry.kind = "dir" ->
                    get_filepaths_loop(t, ex, rel_path, i + 1,
                        IF match_not_exclude(entry.name, ex.folder)
                        THEN get_filepaths(t, ex, name,
                                [acc EXCEPT !.folders = Append(@, name)])
                        ELSE acc)
              [] OTHER ->
                    get_filepaths_loop(t, ex, rel_path, i + 1, acc)

get_filepaths(t, ex, rel_path, acc) ==
    IF IterdirRaises(t, rel_path)
    THEN [acc EXCEPT !.errors = Append(@, curr_path(rel_path))]
    ELSE get_filepaths_loop(t, ex, rel_path, 1, acc)

get_filepaths_ancor(t, ex) ==
    get_filepaths(t, ex, <<>>, [files |-> <<>>, folders |-> <<>>, errors |-> <<>>])

----------------------------------------------------------------------------
(* SpecWalk: a tree is built entry by entry, then walked once.             *)

MaxNodes == 3                        \* entries in the whole tree

EntryNames == { <<"a">>, <<"g">>, <<"g", "a">> }

EntryKinds == {"file", "dir", "other", "noperm"}

\* What iterdir() does in a directory that has just been made.
DirStates == {"", "PermissionError", "NotADirectoryError"}

\* exclude["folder"] and exclude["files"]: None or a list of patterns.
FolderExcludes == { None, Some(<<>>), Some(<< <<"G">> >>), Some(<< <<"a">>, <<"g", "*">> >>) }

FilesExcludes == { None, Some(<< <<"?">> >>), Some(<< <<"a">>, <<"g", "a">> >>) }

EmptyDir(raises) == [raises |-> raises, entries |-> <<>>]

NodeCount(t) ==
    Cardinality(UNION { { <<d, i>> : i \in 1..Len(t[d].entries) } : d \in DOMAIN t })

InitWalk ==
    /\ tree \in { [d \in {<<>>} |-> EmptyDir(r)] : r \in DirStates }
    /\ exclude \in [folder : FolderExcludes, files : FilesExcludes]
    /\ walk_out = None
    /\ old_in = None /\ new_in = None /\ merged = None
    /\ disk = None /\ store = None /\ last = None /\ changes = 0
    /\ pc = None /\ project = None

\* The tree gains one entry, iterated after the entries its directory has.
AddEntry ==
    /\ walk_out = None
    /\ NodeCount(tree) < MaxNodes
    /\ \E d \in DOMAIN tree, n \in EntryNames, kind \in EntryKinds, r \in DirStates :
          /\ tree[d].raises = ""
          /\ \A i \in 1..Len(tree[d].entries) : tree[d].entries[i].name # n
          /\ kind # "dir" => r = ""
          /\ LET entry == [name |-> n, kind |-> kind]
                 below == entry_path(d, entry)
                 dirs  == IF kind = "dir" THEN DOMAIN tree \cup {below} ELSE DOMAIN tree
             IN tree' = [x \in dirs |->
                            IF x = d THEN [tree[d] EXCEPT !.entries = Append(@, entry)]
                            ELSE IF x \in DOMAIN tree THEN tree[x]
                            ELSE EmptyDir(r)]
    /\ UNCHANGED <<old_in, new_in, merged, exclude, walk_out, disk, store, last, changes, pc, project>>

Walk ==
    /\ walk_out = None
    /\ walk_out' = Some(get_filepaths_ancor(tree, exclude))
    /\ UNCHANGED <<old_in, new_in, merged, tree, exclude, disk, store, last, changes, pc, project>>

NextWalk == AddEntry \/ Walk

SpecWalk == InitWalk /\ [][NextWalk]_vars

SeqToSet(s) == { s[i] : i \in 1..Len(s) }

\* The name matches one of the patterns (fnmatch on the name alone).
Excluded(name, excludes) ==
    excludes # None /\ \E pat \in SeqToSet(Value(excludes)) : fnmatch(name, pat)

\* The directories on the way to the last segment of a relative path.
DirSegments(path) == LET segs == SplitSlash(path) IN SeqToSet(SubSeq(segs, 1, Len(segs) - 1))

\* An error is reported as ancor_path / rel_path: the rel_path of it.
ErrorRelPath(path) ==
    IF path = ANCOR THEN <<>> ELSE SubSeq(path, Len(ANCOR) + 2, Len(path))

\* C9: no returned file or folder lies in a directory whose own name matches
\* a folder exclusion pattern, at any depth; no such directory is returned or
\* listed (an error inside it would be reported); and no returned file has a
\* base name matching a file exclusion pattern.
C9_Exclusion ==
    walk_out # None =>
        LET out == Value(walk_out) IN
        /\ \A f \in SeqToSet(out.files) :
              /\ \A seg \in DirSegments(f) : ~Excluded(seg, exclude.folder)
              /\ ~Excluded(SplitSlash(f)[Len(SplitSlash(f))], exclude.files)
        /\ \A d \in SeqToSet(out.folders) :
              \A seg \in SeqToSet(SplitSlash(d)) : ~Excluded(seg, exclude.folder)
        /\ \A e \in SeqToSet(out.errors) :
              ErrorRelPath(e) # <<>> =>
                 \A seg \in SeqToSet(SplitSlash(ErrorRelPath(e))) :
                    ~Excluded(seg, exclude.folder)

\* A walk met, below the top level, an excluded directory holding a file that
\* no file pattern excludes: descending would have returned it.
C9_Witness ==
    /\ walk_out # None
    /\ exclude.files # None
    /\ \E d \in DOMAIN tree :
          /\ Len(SplitSlash(d)) = 2
          /\ Excluded(SplitSlash(d)[2], exclude.folder)
          /\ ~Excluded(SplitSlash(d)[1], exclude.folder)
          /\ \E i \in 1..Len(tree[d].entries) :
                /\ tree[d].entries[i].kind = "file"
                /\ ~Excluded(tree[d].entries[i].name, exclude.files)

\* The walk gets to directory d: no directory on the way to it is excluded.
WalkReaches(d) ==
    d = <<>> \/ \A seg \in SeqToSet(SplitSlash(d)) : ~Excluded(seg, exclude.folder)

\* The entries whose handling raises: stat is refused, or iterdir() raises.
FaultyEntries ==
    UNION { { entry_path(d, tree[d].entries[i]) :
                i \in { j \in 1..Len(tree[d].entries) :
                          \/ tree[d].entries[j].kind = "noperm"
                          \/ /\ tree[d].entries[j].kind = "dir"
                             /\ ~Excluded(tree[d].entries[j].name, exclude.folder)
                             /\ tree[entry_path(d, tree[d].entries[j])].raises # "" } } :
            d \in { x \in DOMAIN tree : WalkReaches(x) /\ tree[x].raises = "" } }

\* C10: an entry whose handling raises PermissionError or NotADirectoryError
\* is recorded in errors and skipped alone: every file and every directory
\* the walk reaches that is not excluded is returned, the siblings iterated
\* after a faulty entry included, and errors has one item per faulty entry.
C10_SiblingsVisited ==
    walk_out # None =>
        LET out == Value(walk_out) IN
        /\ \A d \in DOMAIN tree : WalkReaches(d) =>
              \A i \in 1..Len(tree[d].entries) :
                 LET entry == tree[d].entries[i] IN
                 /\ (entry.kind = "file" /\ ~Excluded(entry.name, exclude.files))
                       => entry_path(d, entry) \in SeqToSet(out.files)
                 /\ (entry.kind = "dir" /\ ~Excluded(entry.name, exclude.folder))
                       => entry_path(d, entry) \in SeqToSet(out.folders)
        /\ Len(out.errors) = Cardinality(FaultyEntries) + (IF tree[<<>>].raises # "" THEN 1 ELSE 0)

----------------------------------------------------------------------------
(* timestamps.py: fingerprinting.                                          *)
(*                                                                         *)
(* Times are whole seconds since the epoch.  A formatted time, the string  *)
(* "%Y-%m-%d %H:%M:%S.%f%z", is the record of what it spells: the local    *)
(* wall clock time and the UTC offset; valid is FALSE for a string that    *)
(* strptime does not parse.                                                *)

TIMESTAMP_STORAGE ==
    <<".", "t", "i", "m", "e", "s", "t", "a", "m", "p", "s", ".", "j", "s", "o", "n">>

\* The UTC offset of the local time zone, astimezone(tz=None).
UTCOFFSET == 3600

format_time(time) == [valid |-> TRUE, wall |-> time + UTCOFFSET, offset |-> UTCOFFSET]

\* datetime.strptime raises ValueError on a string of another shape.
scan_time_raises(timestamp) == ~timestamp.valid

scan_time(timestamp) == timestamp.wall - timestamp.offset

\* hashlib.md5 of a file's bytes: different contents, different digests.
hexdigest(content) == IF content = 1 THEN "h1" ELSE "h2"

\* What happens to one file while it is fingerprinted:
\*   "none"        nothing
\*   "open_fails"  open() raises OSError (a sharing violation); stat works
\*   "gone"        the file is deleted before check_path_exists looks
\*   "stat_fails"  the file is deleted after check_path_exists has looked:
\*                 open() and os.stat raise OSError
FaultKinds == {"none", "open_fails", "gone", "stat_fails"}

\* calculate_md5: "" when reading raises OSError.
calculate_md5(file, fault) ==
    IF fault = "open_fails" THEN "" ELSE hexdigest(file.content)

\* utils.file.check_path_exists
check_path_exists(file, fault) == file # None /\ fault # "gone"

\* get_file_metadata, lines 178-185: rel_path and key.
file_key(file_path, project_path_arg) ==
    LET p1 == path_parent(file_path)
        p2 == project_path_arg
        rel_path == lstrip_slash(split_last(p1, p2))
    IN [rel_path |-> rel_path,
        key |-> IF rel_path = <<>> THEN path_name(file_path)
                ELSE rel_path \o SLASH \o path_name(file_path)]

Max(a, b) == IF a >= b THEN a ELSE b

\* get_file_metadata: (key, None) for a missing file, (key, record) otherwise;
\* raised when os.stat, getmtime, getctime or getatime raises OSError.
\* The size of a file is its content's; the attribute code is the decoder's.
get_file_metadata(file_path, project_path_arg, file, fault) ==
    LET fk == file_key(file_path, project_path_arg) IN
    IF ~check_path_exists(file, fault)
    THEN [key |-> fk.key, data |-> None, raised |-> FALSE]
    ELSE IF fault = "stat_fails"
    THEN [key |-> fk.key, data |-> None, raised |-> TRUE]
    ELSE [key |-> fk.key, raised |-> FALSE,
          data |-> Some([md5  |-> calculate_md5(Value(file), fault),
                         path |-> fk.rel_path,
                         name |-> path_name(file_path),
                         size |-> Value(file).content,
                         attr |-> "A",
                         modified |-> format_time(Value(file).mtime),
                         created  |-> format_time(Value(file).ctime),
                         access   |-> format_time(Max(0, Value(file).atime))])]

----------------------------------------------------------------------------
(* The project on disk.                                                    *)

\* The files the project may hold, by their path below the project.
ProjFiles == { <<"a">>, <<"d", "/", "b">> }

\* The order in which iterdir() gives the entries of the project.
DiskOrder == << <<"a">>, TIMESTAMP_STORAGE, <<"d">>, <<"d", "/", "b">> >>

ProjDirs == { <<>>, <<"d">> }

\* The path below the project of the directory that holds path.
DirOf(path) == IF Len(SplitSlash(path)) = 1 THEN <<>> ELSE path_parent(path)

\* The file at an absolute path: None when there is none.
FullPaths == [f \in ProjFiles |-> path_join(ANCOR, f)]

FileAt(d, path) ==
    IF \E f \in ProjFiles : FullPaths[f] = path
    THEN d[CHOOSE f \in ProjFiles : FullPaths[f] = path]
    ELSE None

OnDisk(d, st, path) ==
    \/ path \in ProjFiles /\ d[path] # None
    \/ path \in ProjDirs
    \/ path = TIMESTAMP_STORAGE /\ st # None

RECURSIVE Listing(_, _, _, _)
Listing(d, st, dir, i) ==
    IF i > Len(DiskOrder) THEN <<>>
    ELSE LET path == DiskOrder[i] IN
         (IF DirOf(path) = dir /\ OnDisk(d, st, path)
          THEN << [name |-> path_name(path),
                   kind |-> IF path \in ProjDirs THEN "dir" ELSE "file"] >>
          ELSE <<>>) \o Listing(d, st, dir, i + 1)

\* The tree the walker sees: the project's files, and the snapshot once written.
DiskTree(d, st) == [dir \in ProjDirs |-> [raises |-> "", entries |-> Listing(d, st, dir, 1)]]

\* Prefs.get("ignore_list"): ignore.yaml keeps the snapshot itself out of the scan.
ignore_list == [folder |-> Some(<< <<".", "g", "i", "t">> >>), files |-> Some(<<TIMESTAMP_STORAGE>>)]

----------------------------------------------------------------------------
(* timestamps.py: scan and restore.                                        *)

\* What happens to the file at an absolute path during this run.
FaultOf(faults, path) ==
    IF \E f \in ProjFiles : FullPaths[f] = path
    THEN faults[CHOOSE f \in ProjFiles : FullPaths[f] = path]
    ELSE "none"

\* scan_files: a file whose fingerprinting raises OSError, or that is missing,
\* gets no entry.
RECURSIVE scan_files_loop(_, _, _, _, _)
scan_files_loop(d, files, faults, i, metadata) ==
    IF i > Len(files) THEN metadata
    ELSE LET file_path == path_join(path_join(DRIVE, project_path), files[i])
             got == get_file_metadata(file_path, project_path,
                                      FileAt(d, file_path), FaultOf(faults, file_path))
         IN scan_files_loop(d, files, faults, i + 1,
                IF got.raised THEN metadata
                ELSE IF got.data # None THEN DictPut(metadata, got.key, Value(got.data))
                ELSE metadata)

scan_files(d, files, faults) == scan_files_loop(d, files, faults, 1, <<>>)

\* utils.file.import_json: the stored document, None when there is none.
import_json(st) == st

\* read_metadata: the document it hands to export_json.  scan.date, the clock
\* reading, is left out.
read_metadata(d, st, reset, faults) ==
    LET files    == get_filepaths_ancor(DiskTree(d, st), ignore_list).files
        metadata == scan_files(d, files, faults)
        old_data == import_json(st)
    IN [scan |-> [path |-> ANCOR, files |-> Len(files), ignore |-> ignore_list],
        metadata |-> IF ~reset /\ old_data # None
                     THEN update_metadata(Value(old_data).metadata, metadata)
                     ELSE metadata]

\* os.utime(fullpath, (atime, mtime)) on the file f.
utime(d, f, atime, mtime) ==
    [d EXCEPT ![f] = Some([Value(@) EXCEPT !.atime = atime, !.mtime = mtime])]

Unlink(d, f) == [d EXCEPT ![f] = None]

\* The file of the project a key of the snapshot leads to.
KeyFile(key) == CHOOSE f \in ProjFiles : FullPaths[f] = path_join(ANCOR, key)

\* A plausible slip: the time is restored whatever the content is now.
must_update_any_content(md5, modified, metadata) == modified # metadata.modified

\* write_metadata, lines 82-83: the file gets the stored time back.
must_update(md5, modified, metadata) ==
    metadata.md5 = md5 /\ modified # metadata.modified

\* The loop of write_metadata from item i on.  run holds the disk, count, the
\* keys whose file was rewritten, the keys whose item was handled to its end,
\* the keys whose file was fingerprinted, and the exception that left the loop
\* ("" when none did).
RECURSIVE write_metadata_loop(_, _, _, _)
write_metadata_loop(infos, faults, i, run) ==
    IF i > Len(infos) THEN run
    ELSE
    LET key      == infos[i].k
        values   == infos[i].v
        md5      == values.md5
        modified == values.modified
        fullpath == path_join(path_join(DRIVE, project_path), key)
        file     == FileAt(run.disk, fullpath)
        fault    == FaultOf(faults, fullpath)
        handled  == [run EXCEPT !.handled = @ \cup {key}]
        examined == [handled EXCEPT !.examined = @ \cup {key}]
    IN
    IF scan_time_raises(modified) THEN [run EXCEPT !.raised = "ValueError"]
    ELSE IF file = None THEN write_metadata_loop(infos, faults, i + 1, handled)
    ELSE
    LET got == get_file_metadata(fullpath, key, file, fault) IN
    IF got.raised
    THEN [run EXCEPT !.raised = "OSError", !.disk = Unlink(@, KeyFile(key)),
                     !.examined = @ \cup {key}]
    ELSE IF got.data = None
    THEN write_metadata_loop(infos, faults, i + 1,
            [examined EXCEPT !.disk = Unlink(@, KeyFile(key))])
    ELSE IF must_update(md5, modified, Value(got.data))
    THEN write_metadata_loop(infos, faults, i + 1,
            [examined EXCEPT !.disk = utime(@, KeyFile(key), -1, scan_time(modified)),
                            !.count = @ + 1,
                            !.written = @ \cup {key}])
    ELSE write_metadata_loop(infos, faults, i + 1, examined)

\* write_metadata: ret is "False" without a snapshot, "True" at the end of the
\* loop, "" when an exception left the loop.
write_metadata(d, st, faults) ==
    LET data  == import_json(st)
        start == [disk |-> d, count |-> 0, written |-> {}, handled |-> {},
                  examined |-> {}, raised |-> ""]
    IN IF data = None THEN start @@ [ret |-> "False"]
       ELSE LET run == write_metadata_loop(Value(data).metadata, faults, 1, start)
            IN run @@ [ret |-> IF run.raised = "" THEN "True" ELSE ""]

----------------------------------------------------------------------------
(* Spec: one project, its files changed from outside between the runs of   *)
(* the program.                                                            *)

MaxChanges == 2                      \* changes made to the project from outside

FileContents == {1, 2}

MTimes == {100, 200}

\* What a new file gets as access time and as creation time.
NewFile(content, mtime) == [content |-> content, mtime |-> mtime, atime |-> 300, ctime |-> 50]

\* A 'modified' string that strptime does not parse.
Unparsable == [valid |-> FALSE, wall |-> 0, offset |-> 0]

NoFaults == [f \in ProjFiles |-> "none"]

NoRun ==
    [op |-> "none", main |-> FALSE, reset |-> FALSE, faults |-> NoFaults,
     disk0 |-> <<>>, store0 |-> None, ret |-> "", raised |-> "", count |-> 0,
     written |-> {}, handled |-> {}, examined |-> {}]

Init ==
    /\ disk = [f \in ProjFiles |-> Some(NewFile(1, 100))]
    /\ store = None
    /\ last = NoRun
    /\ changes = 0
    /\ old_in = None /\ new_in = None /\ merged = None
    /\ tree = None /\ exclude = None /\ walk_out = None
    /\ pc = None /\ project = None

Others == <<old_in, new_in, merged, tree, exclude, walk_out, pc, project>>

Changed ==
    /\ last = NoRun
    /\ changes < MaxChanges
    /\ changes' = changes + 1

\* A file is created, or written with other content.
WriteFile ==
    /\ Changed
    /\ \E f \in ProjFiles, content \in FileContents, mtime \in MTimes :
          /\ disk[f] # None => Value(disk[f]).content # content
          /\ disk' = [disk EXCEPT ![f] =
                        IF @ = None THEN Some(NewFile(content, mtime))
                        ELSE Some([Value(@) EXCEPT !.content = content, !.mtime = mtime])]
    /\ UNCHANGED <<store, last, Others>>

\* A copy, a clone or an extraction gives a file another modification time.
TouchFile ==
    /\ Changed
    /\ \E f \in ProjFiles, mtime \in MTimes :
          /\ disk[f] # None
          /\ Value(disk[f]).mtime # mtime
          /\ disk' = [disk EXCEPT ![f] = Some([Value(@) EXCEPT !.mtime = mtime])]
    /\ UNCHANGED <<store, last, Others>>

DeleteFile ==
    /\ Changed
    /\ \E f \in ProjFiles :
          /\ disk[f] # None
          /\ disk' = Unlink(disk, f)
    /\ UNCHANGED <<store, last, Others>>

\* The snapshot is edited by hand: one 'modified' string no longer parses.
DamageSnapshot ==
    /\ Changed
    /\ store # None
    /\ \E i \in 1..Len(Value(store).metadata) :
          /\ Value(store).metadata[i].v.modified.valid
          /\ store' = Some([Value(store) EXCEPT !.metadata[i].v.modified = Unparsable])
    /\ UNCHANGED <<disk, last, Others>>

\* The files a scan loses while it runs.
AfterFaults(d, faults) ==
    [f \in ProjFiles |-> IF faults[f] \in {"gone", "stat_fails"} THEN None ELSE d[f]]

\* At most one file is struck during one run, and only a file that is there.
FaultChoices(files) ==
    {NoFaults} \cup { [NoFaults EXCEPT ![f] = fault] :
                        f \in files, fault \in FaultKinds \ {"none"} }

ScanRun(via_main, reset) ==
    \E faults \in FaultChoices({ f \in ProjFiles : disk[f] # None }) :
       /\ store' = Some(read_metadata(disk, store, reset, faults))
       /\ disk' = AfterFaults(disk, faults)
       /\ last' = [NoRun EXCEPT !.op = "scan", !.main = via_main, !.reset = reset,
                                !.faults = faults, !.disk0 = disk, !.store0 = store,
                                !.ret = "True"]

\* main(write=False): read_metadata(..., reset=True)
MainScan ==
    /\ last = NoRun
    /\ ScanRun(TRUE, TRUE)
    /\ UNCHANGED <<changes, Others>>

\* main(write=True): write_metadata(...)
MainRestore ==
    /\ last = NoRun
    /\ \E faults \in FaultChoices({ f \in ProjFiles : disk[f] # None }) :
          LET run == write_metadata(disk, store, faults) IN
          /\ \A f \in ProjFiles : faults[f] # "none" => f \in run.examined
          /\ disk' = run.disk
          /\ last' = [NoRun EXCEPT !.op = "restore", !.main = TRUE,
                                   !.faults = faults, !.disk0 = disk, !.store0 = store,
                                   !.ret = run.ret, !.raised = run.raised,
                                   !.count = run.count, !.written = run.written,
                                   !.handled = run.handled, !.examined = run.examined]
    /\ UNCHANGED <<store, changes, Others>>

\* The process ends; what is left of the run is on disk.
Exit ==
    /\ last # NoRun
    /\ last' = NoRun
    /\ UNCHANGED <<disk, store, changes, Others>>

Next ==
    \/ WriteFile \/ TouchFile \/ DeleteFile \/ DamageSnapshot
    \/ MainScan \/ MainRestore \/ Exit

Spec == Init /\ [][Next]_vars

----------------------------------------------------------------------------
(* The claims about scan and restore.  last is the run that has just       *)
(* ended: disk0 and store0 are the project and the snapshot it started     *)
(* from, faults what struck the files while it ran.                        *)

Snapshot(st) == Value(st).metadata

\* The file of key was there when the run began and nothing struck it: it
\* exists and can be fingerprinted.
Fingerprinted(key) ==
    /\ key \in ProjFiles
    /\ last.disk0[key] # None
    /\ last.faults[key] = "none"

\* The md5 of the file of key as the run began.
CurrentMd5(key) == hexdigest(Value(last.disk0[key]).content)

\* C3: a scan through main of a project that has a snapshot reconciles: a
\* file whose md5 is the same in the old and in the new snapshot keeps the
\* 'modified' value of the old one.
C3_ScanKeepsModified ==
    (last.op = "scan" /\ last.main /\ last.store0 # None) =>
        \A key \in DictKeys(Snapshot(store)) \cap DictKeys(Snapshot(last.store0)) :
            DictGet(Snapshot(store), key).md5 = DictGet(Snapshot(last.store0), key).md5
               => DictGet(Snapshot(store), key).modified
                     = DictGet(Snapshot(last.store0), key).modified

\* C4: after a restore, every entry whose file exists with the stored md5 has
\* the stored modification time: it was rewritten and counted when its
\* formatted time differed from the stored one, and left alone when not; count
\* is the number of files rewritten.
C4_MatchRestored ==
    (last.op = "restore" /\ last.store0 # None) =>
        /\ \A key \in DictKeys(Snapshot(last.store0)) :
              LET values == DictGet(Snapshot(last.store0), key) IN
              (Fingerprinted(key) /\ values.modified.valid /\ CurrentMd5(key) = values.md5) =>
                 IF format_time(Value(last.disk0[key]).mtime) # values.modified
                 THEN /\ key \in last.written
                      /\ Value(disk[key]).mtime = scan_time(values.modified)
                 ELSE /\ key \notin last.written
                      /\ disk[key] = last.disk0[key]
        /\ last.count = Cardinality(last.written)

\* C5: a restore does not write to a file whose md5 differs from the stored
\* one, nor for an entry whose file is missing, and does not count them.
C5_MismatchUntouched ==
    (last.op = "restore" /\ last.store0 # None) =>
        /\ \A key \in DictKeys(Snapshot(last.store0)) :
              LET values == DictGet(Snapshot(last.store0), key) IN
              /\ (Fingerprinted(key) /\ CurrentMd5(key) # values.md5) =>
                    /\ key \notin last.written
                    /\ disk[key] = last.disk0[key]
              /\ (key \notin ProjFiles \/ last.disk0[key] = None) =>
                    /\ key \notin last.written
                    /\ key \in ProjFiles => disk[key] = None
        /\ last.count <= Cardinality(
              { key \in DictKeys(Snapshot(last.store0)) \cap ProjFiles :
                  /\ last.disk0[key] # None
                  /\ ~(/\ last.faults[key] = "none"
                       /\ CurrentMd5(key) # DictGet(Snapshot(last.store0), key).md5) })

\* A restore met a file with other content and a newer time, and an entry
\* without file.
C5_Witness ==
    /\ last.op = "restore" /\ last.store0 # None /\ last.ret = "True"
    /\ \E key \in DictKeys(Snapshot(last.store0)) :
          /\ Fingerprinted(key)
          /\ CurrentMd5(key) # DictGet(Snapshot(last.store0), key).md5
          /\ format_time(Value(last.disk0[key]).mtime)
                # DictGet(Snapshot(last.store0), key).modified
    /\ \E key \in DictKeys(Snapshot(last.store0)) : last.disk0[key] = None

\* C6: a restore that rewrites a file's modification time leaves the file's
\* access time as it was.
C6_AccessTimeKept ==
    last.op = "restore" =>
        \A key \in last.written :
            Value(disk[key]).atime = Value(last.disk0[key]).atime

\* C7: a restore fails only without a snapshot; with one it returns True and
\* has handled every entry, whatever happens to single entries.
C7_NoEntryAborts ==
    last.op = "restore" =>
        /\ last.ret = "False" <=> last.store0 = None
        /\ last.store0 # None =>
              /\ last.ret = "True"
              /\ last.handled = DictKeys(Snapshot(last.store0))

\* C8: a scan gives no entry to a file whose reading failed, and an entry to
\* every other file it fingerprinted.
C8_UnreadableSkipped ==
    last.op = "scan" =>
        \A f \in ProjFiles :
            /\ last.faults[f] = "open_fails" => f \notin DictKeys(Snapshot(store))
            /\ (last.disk0[f] # None /\ last.faults[f] = "none")
                  => f \in DictKeys(Snapshot(store))

----------------------------------------------------------------------------
(* SpecScan: read_metadata one statement after the other.  The process may *)
(* be ended before any of them.  last holds the arguments and the project  *)
(* the call started from; walk_out, new_in, old_in and merged are the      *)
(* locals files, metadata (as scanned), old_data and metadata (as saved).  *)

ScanDisks ==
    [ProjFiles -> {None} \cup { Some(NewFile(c, m)) : c \in FileContents, m \in MTimes }]

\* The snapshots an earlier run may have left.
PriorStores ==
    {None} \cup { Some(read_metadata(d, None, TRUE, NoFaults)) : d \in ScanDisks }

\* read_metadata, lines 47-55: the document handed to export_json (without
\* scan.date, the clock reading).
filedata(files, metadata) ==
    [scan |-> [path |-> ANCOR, files |-> Len(files), ignore |-> ignore_list],
     metadata |-> metadata]

\* utils.file.export_json: the document replaces what the file held.
export_json(st, data) == Some(data)

InitScan ==
    /\ disk \in ScanDisks
    /\ store \in PriorStores
    /\ \E reset \in BOOLEAN :
          last = [NoRun EXCEPT !.op = "scan", !.reset = reset,
                               !.disk0 = disk, !.store0 = store]
    /\ pc = [at |-> "walk", i |-> 1, saves |-> 0, ended |-> ""]
    /\ old_in = None /\ new_in = None /\ merged = None /\ walk_out = None
    /\ tree = None /\ exclude = None /\ changes = 0 /\ project = None

Running == pc.ended = ""

\* line 39: files, _folders, _errors = get_filepaths_ancor(...)
WalkStep ==
    /\ Running /\ pc.at = "walk"
    /\ walk_out' = Some(get_filepaths_ancor(DiskTree(disk, store), ignore_list))
    /\ pc' = [pc EXCEPT !.at = "scan"]
    /\ UNCHANGED <<old_in, new_in, merged, tree, exclude, disk, store, last, changes, project>>

\* line 40, one pass of the loop of scan_files: the file is fingerprinted,
\* or lost or unreadable at that moment.
ScanFile ==
    /\ Running /\ pc.at = "scan"
    /\ pc.i <= Len(Value(walk_out).files)
    /\ LET file == Value(walk_out).files[pc.i] IN
       \E fault \in FaultKinds :
          /\ fault # "none" => disk[file] # None
          /\ new_in' = scan_files_loop(disk, <<file>>, [NoFaults EXCEPT ![file] = fault],
                                       1, new_in)
          /\ disk' = AfterFaults(disk, [NoFaults EXCEPT ![file] = fault])
    /\ pc' = [pc EXCEPT !.i = @ + 1]
    /\ UNCHANGED <<old_in, merged, tree, exclude, walk_out, last, changes, project>>

\* A scan that saved what it has after every file.
ScanStep_saving ==
    /\ ScanFile
    /\ store' = export_json(store, filedata(Value(walk_out).files, new_in'))

ScanStep ==
    /\ ScanFile
    /\ UNCHANGED store

\* line 40: scan_files returns.
ScanReturn ==
    /\ Running /\ pc.at = "scan"
    /\ pc.i > Len(Value(walk_out).files)
    /\ pc' = [pc EXCEPT !.at = "import"]
    /\ UNCHANGED <<old_in, new_in, merged, tree, exclude, walk_out, disk, store, last,
                   changes, project>>

\* lines 42-43: the old snapshot is read unless reset.
ImportStep ==
    /\ Running /\ pc.at = "import"
    /\ IF last.reset
       THEN /\ merged' = Some(new_in)
            /\ pc' = [pc EXCEPT !.at = "export"]
            /\ UNCHANGED old_in
       ELSE /\ old_in' = import_json(store)
            /\ pc' = [pc EXCEPT !.at = "update"]
            /\ UNCHANGED merged
    /\ UNCHANGED <<new_in, tree, exclude, walk_out, disk, store, last, changes, project>>

\* lines 44-45: metadata = update_metadata(old_data["metadata"], metadata)
UpdateStep ==
    /\ Running /\ pc.at = "update"
    /\ merged' = Some(IF old_in # None
                      THEN update_metadata(Value(old_in).metadata, new_in)
                      ELSE new_in)
    /\ pc' = [pc EXCEPT !.at = "export"]
    /\ UNCHANGED <<old_in, new_in, tree, exclude, walk_out, disk, store, last, changes, project>>

\* lines 47-57: export_json(project_path, TIMESTAMP_STORAGE, filedata)
ExportStep ==
    /\ Running /\ pc.at = "export"
    /\ store' = export_json(store, filedata(Value(walk_out).files, Value(merged)))
    /\ pc' = [pc EXCEPT !.at = "result", !.saves = @ + 1]
    /\ UNCHANGED <<old_in, new_in, merged, tree, exclude, walk_out, disk, last, changes, project>>

\* lines 58-59: Trace.result, return True
ReturnStep ==
    /\ Running /\ pc.at = "result"
    /\ pc' = [pc EXCEPT !.ended = "returned"]
    /\ UNCHANGED <<old_in, new_in, merged, tree, exclude, walk_out, disk, store, last,
                   changes, project>>

\* The process is ended from outside; pc.at keeps where it stood.
Terminate ==
    /\ Running
    /\ pc' = [pc EXCEPT !.ended = "killed"]
    /\ UNCHANGED <<old_in, new_in, merged, tree, exclude, walk_out, disk, store, last,
                   changes, project>>

NextScan ==
    \/ WalkStep \/ ScanStep \/ ScanReturn \/ ImportStep \/ UpdateStep
    \/ ExportStep \/ ReturnStep \/ Terminate

SpecScan == InitScan /\ [][NextScan]_vars

\* The snapshot was written by this call.
Saved == pc.saves > 0

\* C11: read_metadata writes the snapshot once, after the tree has been
\* walked, every file fingerprinted and the result reconciled, and changes
\* nothing after that; a call ended at any earlier point leaves the snapshot
\* that was there (or none) as it was.
C11_SavedOnceAtEnd ==
    /\ ~Saved => store = last.store0
    /\ Saved =>
          /\ pc.saves = 1
          /\ pc.at = "result"
          /\ walk_out # None
          /\ pc.i > Len(Value(walk_out).files)
          /\ merged # None
          /\ Value(merged) = (IF ~last.reset /\ last.store0 # None
                              THEN update_metadata(Snapshot(last.store0), new_in)
                              ELSE new_in)
          /\ store = Some(filedata(Value(walk_out).files, Value(merged)))
    /\ pc.ended = "returned" => Saved

\* A call ended after the files were fingerprinted and before the save, with
\* an old snapshot that the save would have replaced by another.
C11_Witness ==
    /\ pc.ended = "killed"
    /\ pc.at \in {"import", "update", "export"}
    /\ new_in # <<>>
    /\ last.store0 # None
    /\ Snapshot(last.store0) # new_in
    /\ store = last.store0

----------------------------------------------------------------------------
(* SpecKey: a tree is built below a project, walked, and the files the     *)
(* walker returned are handed to scan_files.  Every file is there and      *)
(* readable.                                                               *)

MaxKeyNodes == 3                     \* entries in the whole tree

\* project["path"] / project["name"]
KeyProjects == { <<"/", "p">>, <<"/", "q", "/", "p">> }

KeyNames == { <<"p">>, <<"q">>, <<"b">> }

\* scan_files for the project at pp.
RECURSIVE scan_tree_loop(_, _, _, _)
scan_tree_loop(pp, files, i, metadata) ==
    IF i > Len(files) THEN metadata
    ELSE LET file_path == path_join(path_join(DRIVE, pp), files[i])
             got == get_file_metadata(file_path, pp, Some(NewFile(1, 100)), "none")
         IN scan_tree_loop(pp, files, i + 1,
                IF got.data # None THEN DictPut(metadata, got.key, Value(got.data))
                ELSE metadata)

InitKey ==
    /\ project \in KeyProjects
    /\ tree = [d \in {<<>>} |-> EmptyDir("")]
    /\ exclude = ignore_list
    /\ walk_out = None
    /\ new_in = None
    /\ last = NoRun
    /\ old_in = None /\ merged = None
    /\ disk = None /\ store = None /\ changes = 0 /\ pc = None

\* The project gains a file or a directory.
AddKeyEntry ==
    /\ walk_out = None
    /\ NodeCount(tree) < MaxKeyNodes
    /\ \E d \in DOMAIN tree, n \in KeyNames, kind \in {"file", "dir"} :
          /\ \A i \in 1..Len(tree[d].entries) : tree[d].entries[i].name # n
          /\ LET entry == [name |-> n, kind |-> kind]
                 below == entry_path(d, entry)
                 dirs  == IF kind = "dir" THEN DOMAIN tree \cup {below} ELSE DOMAIN tree
             IN tree' = [x \in dirs |->
                            IF x = d THEN [tree[d] EXCEPT !.entries = Append(@, entry)]
                            ELSE IF x \in DOMAIN tree THEN tree[x]
                            ELSE EmptyDir("")]
    /\ UNCHANGED <<old_in, new_in, merged, exclude, walk_out, disk, store, last, changes,
                   pc, project>>

\* read_metadata, line 39
KeyWalk ==
    /\ walk_out = None
    /\ walk_out' = Some(get_filepaths_ancor(tree, exclude))
    /\ UNCHANGED <<old_in, new_in, merged, tree, exclude, disk, store, last, changes,
                   pc, project>>

\* read_metadata, line 40
KeyScan ==
    /\ walk_out # None
    /\ last = NoRun
    /\ new_in' = scan_tree_loop(project, Value(walk_out).files, 1, <<>>)
    /\ last' = [NoRun EXCEPT !.op = "scan"]
    /\ UNCHANGED <<old_in, merged, tree, exclude, walk_out, disk, store, changes, pc, project>>

NextKey == AddKeyEntry \/ KeyWalk \/ KeyScan

SpecKey == InitKey /\ [][NextKey]_vars

\* C12: every relative path the walker returned is the key of the record of
\* that file, whose 'path' is the directory part of the relative path and
\* whose 'name' its last segment; so there are as many records as files.
C12_KeyIsRelativePath ==
    last.op = "scan" =>
        /\ \A i \in 1..Len(Value(walk_out).files) :
              LET r == Value(walk_out).files[i] IN
              /\ DictHas(new_in, r)
              /\ DictGet(new_in, r).path = DirOf(r)
              /\ DictGet(new_in, r).name = path_name(r)
        /\ Len(new_in) = Len(Value(walk_out).files)

====
